---- MODULE Spec2Model ----
(***************************************************************************)
(* Model of the vector_search service: the LLM reranking request           *)
(* (app/rerank.py behind POST /search_rerank in app/main.py) and the       *)
(* hybrid RRF search (app/hybrid_search.py, app/hybrid_search_bm25.py).    *)
(*                                                                         *)
(* Table names are modelled as positive integers.  LLM scores are modelled *)
(* in tenths (9 stands for 0.9, 15 for 1.5, -2 for -0.2).                  *)
(***************************************************************************)
EXTENDS Integers, Sequences, FiniteSets, TLC

\* rerank.py:164  BATCH_SIZE = 25
BATCH_SIZE == 25

\* The largest number of rows the vector retrieval returns in the model.
MaxCand == 60

\* hybrid_search.py:181  candidate_count = max(100, top_n * 10)
MIN_CANDIDATES == 100

\* hybrid_search.py:102  k: int = 60
RRF_K == 60

\* The tables of the hybrid-search model are 1..MaxTables, each retrieval
\* source returns at most MaxRows of them, and top_n ranges over 1..MaxTopN
\* and the largest value a request may carry.
MaxTables == 3
MaxRows == 2
MaxTopN == 2

\* models.py:64  top_n: int = Field(10, ge=1, le=100)
TOP_N_MAX == 100

\* search.py:70  round(score, 4): a returned score is a multiple of 1/ScoreScale
ScoreScale == 10000

\* Distances of the vector-search model are multiples of 1/DistScale: the
\* multiples of DistStep up to MaxDistSteps of them on either side of zero,
\* and the distances of the documented examples.  A query returns at most
\* MaxSRows rows.
DistScale == 10 * ScoreScale
DistStep == 1237
MaxDistSteps == 90
MaxSRows == 1

VARIABLES
    pc,              \* position of the /search_rerank request
    initial_results, \* rerank.py:132  table names returned by vector_search.search
    candidates,      \* rerank.py:153  candidate dicts built from the metadata rows
    i,               \* rerank.py:168  loop index (0-based offset of the next batch)
    all_results,     \* rerank.py:165  results collected so far
    issued,          \* history: the batch handed to each client.generate call
    replies,         \* history: what each client.generate call produced
    fellback,        \* history: TRUE once the outer except of rerank.py:193 ran
    failed_at,       \* history: the upstream call that raised, or "none"
    http,            \* main.py:103/106  0 while running, then 200 or 500
    response         \* main.py:103  RerankResponse.results

VARIABLES
    h_pc,            \* position of the hybrid search request
    h_req,           \* the HybridSearchRequest: variant, top_n, rrf_k, weights
    vs_state,        \* the vector_search coroutine of asyncio.gather
    ts_state,        \* the tags_search / bm25_search coroutine
    vs_limit,        \* the LIMIT given to the vector source
    ts_limit,        \* the LIMIT given to the tags / BM25 source
    vs_query,        \* the query text given to the vector source
    ts_query,        \* the query text given to the tags / BM25 source
    completed,       \* history: the sources ("vs", "ts") in the order they returned
    vector_results,  \* hybrid_search.py:183  result of the vector source
    tags_results,    \* hybrid_search.py:183  result of the tags / BM25 source
    rrf_results,     \* hybrid_search.py:189  what calculate_rrf returned
    h_http,          \* main.py:135/138  0 while running, then 200 or 500
    h_response       \* main.py:135  HybridSearchResponse.results

VARIABLES
    f_pc,            \* position of the pair of direct calculate_rrf calls
    f_in,            \* their arguments: the rank lists a and b, k, the weights
    f_ab,            \* calculate_rrf(a, b, k, w1, w2)
    f_ba             \* calculate_rrf(b, a, k, w2, w1)

VARIABLES
    s_pc,            \* position of the /search request
    s_method,        \* search.py:19  the method argument
    s_operator,      \* search.py:37  the pgvector operator of the query
    s_rows,          \* search.py:51  the rows of the query, nearest first
    s_top_n,         \* search.py:19  the top_n argument
    s_results        \* search.py:54  the SearchResult list

rvars == <<pc, initial_results, candidates, i, all_results, issued, replies,
           fellback, failed_at, http, response>>

hvars == <<h_pc, h_req, vs_state, ts_state, vs_limit, ts_limit, vs_query, ts_query,
           completed,
           vector_results, tags_results, rrf_results, h_http, h_response>>

fvars == <<f_pc, f_in, f_ab, f_ba>>

svars == <<s_pc, s_method, s_operator, s_top_n, s_rows, s_results>>

vars == <<rvars, hvars, fvars, svars>>

----------------------------------------------------------------------------
(* Small helpers on sequences.                                              *)

Min2(a, b) == IF a < b THEN a ELSE b

Max2(a, b) == IF a > b THEN a ELSE b

Range(s) == {s[j] : j \in 1..Len(s)}

Reverse(s) == [j \in 1..Len(s) |-> s[Len(s) + 1 - j]]

\* ceil(n / d) for n >= 0, d > 0
CeilDiv(n, d) == (n + d - 1) \div d

----------------------------------------------------------------------------
(* The raw text of an LLM response, as a sequence of tokens.               *)
(*   lb, rb   the characters [ and ]                                        *)
(*   txt      conversational text without brackets (not JSON)               *)
(*   obj      {"table_name": name, "score": <number score>}                 *)
(*   objstr   {"table_name": name, "score": "high"}  (score not a number)   *)
(*   objns    {"table_name": name}                   (no score key)         *)
(*   num      a bare JSON number, e.g. 7                                    *)
(*   arr      (only in parsed values) a nested array                        *)

LB == [t |-> "lb", name |-> 0, score |-> 0]
RB == [t |-> "rb", name |-> 0, score |-> 0]
TXT == [t |-> "txt", name |-> 0, score |-> 0]
NUM == [t |-> "num", name |-> 0, score |-> 0]
ARR == [t |-> "arr", name |-> 0, score |-> 0]
Obj(name, score) == [t |-> "obj", name |-> name, score |-> score]
ObjStr(name) == [t |-> "objstr", name |-> name, score |-> 0]
ObjNoScore(name) == [t |-> "objns", name |-> name, score |-> 0]

IsValueTok(tok) == tok.t \in {"obj", "objstr", "objns", "num"}

\* json.loads of a text that starts at a "[": the elements of the outermost
\* array, or failure (JSONDecodeError) when the text is not exactly one array.
RECURSIVE ScanArray(_, _, _, _)
ScanArray(s, j, d, acc) ==
    IF j > Len(s) THEN [ok |-> (d = 0 /\ Len(s) > 0), items |-> acc]
    ELSE LET tok == s[j] IN
      CASE tok.t = "txt" -> [ok |-> FALSE, items |-> <<>>]
        [] tok.t = "lb" ->
             IF d = 0 /\ j > 1 THEN [ok |-> FALSE, items |-> <<>>]
             ELSE IF d = 1 THEN ScanArray(s, j + 1, 2, Append(acc, ARR))
             ELSE ScanArray(s, j + 1, d + 1, acc)
        [] tok.t = "rb" ->
             IF d = 0 THEN [ok |-> FALSE, items |-> <<>>]
             ELSE ScanArray(s, j + 1, d - 1, acc)
        [] OTHER ->
             IF d = 0 THEN [ok |-> FALSE, items |-> <<>>]
             ELSE IF d = 1 THEN ScanArray(s, j + 1, d, Append(acc, tok))
             ELSE ScanArray(s, j + 1, d, acc)

FirstLB(s) ==
    IF \E j \in 1..Len(s) : s[j].t = "lb"
    THEN CHOOSE j \in 1..Len(s) :
           s[j].t = "lb" /\ \A k \in 1..(j - 1) : s[k].t # "lb"
    ELSE 0

LastRB(s) ==
    IF \E j \in 1..Len(s) : s[j].t = "rb"
    THEN CHOOSE j \in 1..Len(s) :
           s[j].t = "rb" /\ \A k \in (j + 1)..Len(s) : s[k].t # "rb"
    ELSE 0

\* rerank.py:63-86  _parse_llm_response.  The result is
\*   [kind |-> "list", items |-> ...]   a parsed JSON array (or the [] of the
\*                                       JSONDecodeError handler)
\*   [kind |-> "nonlist", ...]          json.loads returned a dict or a number
ParseLLMResponse(text) ==
    LET f == FirstLB(text)
        l == LastRB(text)
    IN IF f > 0 /\ l > f
       THEN \* re.search(r'\[.*\]', DOTALL): first "[" to last "]"
            LET r == ScanArray(SubSeq(text, f, l), 1, 0, <<>>)
            IN IF r.ok THEN [kind |-> "list", items |-> r.items]
               ELSE [kind |-> "list", items |-> <<>>]
       ELSE \* no match: json.loads(response) of the whole text
            IF Len(text) = 1 /\ IsValueTok(text[1])
            THEN [kind |-> "nonlist", items |-> <<>>]
            ELSE [kind |-> "list", items |-> <<>>]

\* What one client.generate call produces: an exception, or a response text.
CallFailed == [kind |-> "fail", text |-> <<>>]
Answered(text) == [kind |-> "text", text |-> text]

\* rerank.py:88-114  _rerank_batch: [] when the call raises, else the parse.
RerankBatch(reply) ==
    IF reply.kind = "fail" THEN [kind |-> "list", items |-> <<>>]
    ELSE ParseLLMResponse(reply.text)

----------------------------------------------------------------------------
(* The loop body of rerank (rerank.py:174-186).                             *)

\* rerank.py:175  the dict comprehension raises (TypeError / KeyError) when
\* batch_scores is not a list of objects with both keys.
ScoreMapRaises(parsed) ==
    \/ parsed.kind = "nonlist"
    \/ \E j \in 1..Len(parsed.items) : parsed.items[j].t \notin {"obj", "objstr"}

\* rerank.py:175  score_map: a later entry for the same name overwrites.
InScoreMap(items, name) == \E j \in 1..Len(items) : items[j].name = name

ScoreMapGet(items, name) ==
    items[CHOOSE j \in 1..Len(items) :
            /\ items[j].name = name
            /\ \A k \in (j + 1)..Len(items) : items[k].name # name]

\* rerank.py:180  score_map.get(table_name, 0.0)
LLMScore(items, name) ==
    IF InScoreMap(items, name) THEN ScoreMapGet(items, name).score ELSE 0

\* rerank.py:184  float(llm_score) raises ValueError on a non-numeric score
FloatRaises(items, name) ==
    InScoreMap(items, name) /\ ScoreMapGet(items, name).t = "objstr"

BatchRaises(parsed, batch) ==
    \/ ScoreMapRaises(parsed)
    \/ \E j \in 1..Len(batch) : FloatRaises(parsed.items, batch[j].table_name)

\* Mutant of BatchResults: only the candidates the response scored are kept.
BatchResultsOnlyScored(parsed, batch) ==
    LET scored == SelectSeq(batch, LAMBDA c : InScoreMap(parsed.items, c.table_name))
    IN [j \in 1..Len(scored) |->
          [table_name |-> scored[j].table_name,
           score |-> LLMScore(parsed.items, scored[j].table_name)]]

\* rerank.py:178-186  one RerankResult per candidate of the batch
BatchResults(parsed, batch) ==
    [j \in 1..Len(batch) |->
        [table_name |-> batch[j].table_name,
         score |-> LLMScore(parsed.items, batch[j].table_name)]]

\* rerank.py:196-202  the outer except: every candidate with score 0.0
FallbackResults(cands) ==
    [j \in 1..Len(cands) |-> [table_name |-> cands[j].table_name, score |-> 0]]

\* rerank.py:169  candidates[i:i + BATCH_SIZE]  (i is 0-based)
BatchAt(cands, off) == SubSeq(cands, off + 1, Min2(off + BATCH_SIZE, Len(cands)))

\* Mutant of SortByScoreDesc: ascending sort (reverse=True forgotten).
RECURSIVE SortByScoreAsc(_)
SortByScoreAsc(s) ==
    IF Len(s) = 0 THEN <<>>
    ELSE LET low == CHOOSE v \in {s[j].score : j \in 1..Len(s)} :
                       \A j \in 1..Len(s) : s[j].score >= v
         IN SelectSeq(s, LAMBDA r : r.score = low)
            \o SortByScoreAsc(SelectSeq(s, LAMBDA r : r.score # low))

\* Mutant of SortByScoreDesc: ascending sort then reversal, which reverses
\* the order of equal scores.
RECURSIVE SortAscReversed(_)
SortAscReversed(s) ==
    IF Len(s) = 0 THEN <<>>
    ELSE LET top == CHOOSE v \in {s[j].score : j \in 1..Len(s)} :
                       \A j \in 1..Len(s) : s[j].score <= v
         IN Reverse(SelectSeq(s, LAMBDA r : r.score = top))
            \o SortAscReversed(SelectSeq(s, LAMBDA r : r.score # top))

\* rerank.py:189  all_results.sort(key=score, reverse=True): a stable sort,
\* equal scores keep their order.
RECURSIVE SortByScoreDesc(_)
SortByScoreDesc(s) ==
    IF Len(s) = 0 THEN <<>>
    ELSE LET top == CHOOSE v \in {s[j].score : j \in 1..Len(s)} :
                       \A j \in 1..Len(s) : s[j].score <= v
         IN SelectSeq(s, LAMBDA r : r.score = top)
            \o SortByScoreDesc(SelectSeq(s, LAMBDA r : r.score # top))

----------------------------------------------------------------------------
(* The inputs of the model: metadata-store contents and LLM responses.      *)

\* What tables_metadata holds for the retrieved names: names with no row,
\* names whose table_description is NULL, and the order the rows come back
\* in (the query of rerank.py:143-147 has no ORDER BY).
MetaStores ==
    { [absent |-> {}, nulldesc |-> {}, desc |-> FALSE],
      [absent |-> {}, nulldesc |-> {}, desc |-> TRUE],
      [absent |-> {2}, nulldesc |-> {}, desc |-> FALSE],
      [absent |-> {}, nulldesc |-> {1}, desc |-> FALSE] }

\* The score a complete response gives to a table: 0.1, 0.5 or 0.9.
SpreadScore(name) == 1 + 4 * (name % 3)

\* A response that scores every table of the batch: all 0.5 when flat.
FullText(batch, flat) ==
    <<LB>> \o [j \in 1..Len(batch) |->
                 Obj(batch[j].table_name,
                     IF flat THEN 5 ELSE SpreadScore(batch[j].table_name))]
           \o <<RB>>

\* A name that is not in the batch: a candidate of another batch when there
\* is one, else a name that is no candidate at all (0).
ForeignName(batch, cands) ==
    IF batch[1] # cands[1] THEN cands[1].table_name
    ELSE IF Len(cands) > Len(batch) THEN cands[Len(cands)].table_name
    ELSE 0

\* The response texts the scorer may produce for a batch.
Responses(batch, cands) ==
    LET first == batch[1].table_name
        last == batch[Len(batch)].table_name
        other == ForeignName(batch, cands)
    IN { <<>>,                                           \* empty text
         <<TXT>>,                                        \* prose, no array
         FullText(batch, FALSE),                        \* every table scored
         FullText(batch, TRUE),                          \* every table 0.5
         <<TXT, LB, Obj(last, 9), RB, TXT>>,             \* partial, in prose
         <<LB, Obj(first, 15), RB>>,                     \* score above 1
         <<LB, Obj(first, -2), Obj(other, 9), RB>>,      \* below 0, foreign name
         <<LB, Obj(first, 5), Obj(first, 9), RB>>,       \* a name scored twice
         <<LB, NUM, RB>>,                                \* array of a number
         <<LB, Obj(first, 9), ObjNoScore(last), RB>>,    \* entry without score
         <<LB, ObjStr(first), RB>>,                      \* non-numeric score
         <<LB, Obj(first, 9), LB, RB, RB>>,              \* nested array
         <<Obj(first, 9)>>,                              \* a bare object
         <<LB, TXT, RB, TXT, LB, Obj(first, 9), RB>>,    \* bracketed prose first
         <<LB, Obj(first, 9), RB, LB, Obj(last, 5), RB>> \* two arrays
       }

----------------------------------------------------------------------------
(* POST /search_rerank: main.py:84-106 around RerankService.rerank.         *)

RerankIdle ==
    /\ pc = "idle"
    /\ initial_results = <<>>
    /\ candidates = <<>>
    /\ i = 0
    /\ all_results = <<>>
    /\ issued = <<>>
    /\ replies = <<>>
    /\ fellback = FALSE
    /\ failed_at = "none"
    /\ http = 0
    /\ response = <<>>

HybridIdle ==
    /\ h_pc = "idle"
    /\ h_req = [variant |-> "tags", query |-> "", top_n |-> 1, rrf_k |-> RRF_K,
                vector_weight |-> 5, tags_weight |-> 5]
    /\ vs_state = "idle"
    /\ ts_state = "idle"
    /\ vs_limit = 0
    /\ ts_limit = 0
    /\ vs_query = ""
    /\ ts_query = ""
    /\ completed = <<>>
    /\ vector_results = <<>>
    /\ tags_results = <<>>
    /\ rrf_results = <<>>
    /\ h_http = 0
    /\ h_response = <<>>

FuseIdle ==
    /\ f_pc = "idle"
    /\ f_in = [a |-> <<>>, b |-> <<>>, k |-> RRF_K, w1 |-> 5, w2 |-> 5]
    /\ f_ab = <<>>
    /\ f_ba = <<>>

SearchIdle ==
    /\ s_pc = "idle"
    /\ s_method = "cosine"
    /\ s_operator = ""
    /\ s_top_n = 1
    /\ s_rows = <<>>
    /\ s_results = <<>>

RerankInit ==
    /\ HybridIdle
    /\ FuseIdle
    /\ SearchIdle
    /\ pc = "embed"
    /\ initial_results = <<>>
    /\ candidates = <<>>
    /\ i = 0
    /\ all_results = <<>>
    /\ issued = <<>>
    /\ replies = <<>>
    /\ fellback = FALSE
    /\ failed_at = "none"
    /\ http = 0
    /\ response = <<>>

\* main.py:103  return RerankResponse(results=results, total=len(results))
Return(results) ==
    /\ pc' = "done"
    /\ http' = 200
    /\ response' = results

\* Mutant of Raise: the exception is swallowed and an empty result returned.
RaiseSwallowed(where) ==
    /\ pc' = "done"
    /\ http' = 200
    /\ response' = <<>>
    /\ failed_at' = where

\* main.py:105-106  an exception out of rerank becomes HTTP 500
Raise(where) ==
    /\ pc' = "done"
    /\ http' = 500
    /\ response' = <<>>
    /\ failed_at' = where

\* search.py:31, embedding.py:26-30  the embedding call answers
GetEmbedding ==
    /\ UNCHANGED <<hvars, fvars, svars>>
    /\ pc = "embed"
    /\ pc' = "vfetch"
    /\ UNCHANGED <<initial_results, candidates, i, all_results, issued, replies,
                   fellback, failed_at, http, response>>

\* embedding.py:31-32  the embedding call fails (or times out after 30 s)
GetEmbeddingFails ==
    /\ UNCHANGED <<hvars, fvars, svars>>
    /\ pc = "embed"
    /\ Raise("embedding")
    /\ UNCHANGED <<initial_results, candidates, i, all_results, issued, replies,
                   fellback>>

\* search.py:50-73, rerank.py:132-137  the index query returns m rows
VectorFetch ==
    /\ UNCHANGED <<hvars, fvars, svars>>
    /\ pc = "vfetch"
    /\ \E m \in 0..MaxCand :
         /\ initial_results' = [j \in 1..m |-> j]
         /\ IF m = 0
            THEN Return(<<>>)
            ELSE pc' = "mfetch" /\ UNCHANGED <<http, response>>
    /\ UNCHANGED <<candidates, i, all_results, issued, replies, fellback,
                   failed_at>>

\* search.py:50-51  the index query raises
VectorFetchFails ==
    /\ UNCHANGED <<hvars, fvars, svars>>
    /\ pc = "vfetch"
    /\ Raise("vector")
    /\ UNCHANGED <<initial_results, candidates, i, all_results, issued, replies,
                   fellback>>

\* rerank.py:150  the rows of tables_metadata for the retrieved names
MetadataRows(names, store) ==
    LET found == SelectSeq(names, LAMBDA n : n \notin store.absent)
    IN IF store.desc THEN Reverse(found) ELSE found

\* rerank.py:153-158  candidates built from the rows
BuildCandidates(rows, store) ==
    [j \in 1..Len(rows) |->
        [table_name |-> rows[j],
         description |-> IF rows[j] \in store.nulldesc
                         THEN "No description available" ELSE "text"]]

\* rerank.py:139-165  the metadata fetch answers
MetadataFetch ==
    /\ UNCHANGED <<hvars, fvars, svars>>
    /\ pc = "mfetch"
    /\ \E store \in MetaStores :
         LET cands == BuildCandidates(MetadataRows(initial_results, store), store)
         IN /\ candidates' = cands
            /\ IF Len(cands) = 0
               THEN Return(<<>>)
               ELSE pc' = "batch" /\ UNCHANGED <<http, response>>
    /\ i' = 0
    /\ all_results' = <<>>
    /\ UNCHANGED <<initial_results, issued, replies, fellback, failed_at>>

\* rerank.py:149-150  the metadata fetch raises
MetadataFetchFails ==
    /\ UNCHANGED <<hvars, fvars, svars>>
    /\ pc = "mfetch"
    /\ Raise("metadata")
    /\ UNCHANGED <<initial_results, candidates, i, all_results, issued, replies,
                   fellback>>

\* rerank.py:168-172, 100-107  the next batch is sent to client.generate
LLMCall ==
    /\ UNCHANGED <<hvars, fvars, svars>>
    /\ pc = "batch"
    /\ i < Len(candidates)
    /\ issued' = Append(issued, BatchAt(candidates, i))
    /\ pc' = "llm_wait"
    /\ UNCHANGED <<initial_results, candidates, i, all_results, replies,
                   fellback, failed_at, http, response>>

\* rerank.py:109-114, 174-186, 193-202  client.generate has produced `reply`
HandleReply(reply) ==
    LET batch == BatchAt(candidates, i)
        parsed == RerankBatch(reply)
    IN /\ replies' = Append(replies, reply)
       /\ IF BatchRaises(parsed, batch)
          THEN /\ fellback' = TRUE
               /\ Return(FallbackResults(candidates))
               /\ UNCHANGED <<i, all_results>>
          ELSE /\ all_results' = all_results \o BatchResults(parsed, batch)
               /\ i' = i + BATCH_SIZE
               /\ pc' = "batch"
               /\ UNCHANGED <<fellback, http, response>>
       /\ UNCHANGED <<initial_results, candidates, issued, failed_at>>

\* the scorer answers the outstanding call with some text
LLMAnswers ==
    /\ UNCHANGED <<hvars, fvars, svars>>
    /\ pc = "llm_wait"
    /\ \E text \in Responses(BatchAt(candidates, i), candidates) :
         HandleReply(Answered(text))

\* the outstanding call raises (transport failure)
LLMFails ==
    /\ UNCHANGED <<hvars, fvars, svars>>
    /\ pc = "llm_wait"
    /\ HandleReply(CallFailed)

\* rerank.py:188-191  after the loop: sort and return
SortAndReturn ==
    /\ UNCHANGED <<hvars, fvars, svars>>
    /\ pc = "batch"
    /\ i >= Len(candidates)
    /\ all_results' = SortByScoreDesc(all_results)
    /\ Return(SortByScoreDesc(all_results))
    /\ UNCHANGED <<initial_results, candidates, i, issued, replies, fellback,
                   failed_at>>

\* The steps that do not wait for the scorer.
ServiceStep ==
    \/ GetEmbedding
    \/ GetEmbeddingFails
    \/ VectorFetch
    \/ VectorFetchFails
    \/ MetadataFetch
    \/ MetadataFetchFails
    \/ LLMCall
    \/ SortAndReturn

Next ==
    \/ GetEmbedding
    \/ GetEmbeddingFails
    \/ VectorFetch
    \/ VectorFetchFails
    \/ MetadataFetch
    \/ MetadataFetchFails
    \/ LLMCall
    \/ LLMAnswers
    \/ LLMFails
    \/ SortAndReturn

Spec == RerankInit /\ [][Next]_vars

----------------------------------------------------------------------------
(* Properties of the rerank request.                                        *)

Done == pc = "done"

NCand == Len(candidates)

CandNames == [j \in 1..Len(candidates) |-> candidates[j].table_name]

\* The position of a table name in the candidate list.
CandIndex(name) == CHOOSE j \in 1..Len(candidates) : candidates[j].table_name = name

\* The score the response gives a table name.
ResponseScore(name) ==
    response[CHOOSE j \in 1..Len(response) : response[j].table_name = name].score

Parsed(j) == RerankBatch(replies[j])

\* Reply j is a failure of its batch: the call raised, no valid array was
\* found, or the parsed value is not a well-formed array of objects.
ReplyUnparseable(j) ==
    /\ replies[j].kind = "text"
    /\ Parsed(j).kind = "list"
    /\ Parsed(j).items = <<>>

ReplyMalformed(j) == BatchRaises(Parsed(j), issued[j])

ReplyIsFailure(j) ==
    replies[j].kind = "fail" \/ ReplyUnparseable(j) \/ ReplyMalformed(j)

\* Reply j names a table that is not in its batch.
ReplyNamesForeign(j) ==
    \E k \in 1..Len(Parsed(j).items) :
        \A c \in 1..Len(issued[j]) : issued[j][c].table_name # Parsed(j).items[k].name

\* Reply j leaves a candidate of its batch without a score.
ReplyIsPartial(j) ==
    /\ Parsed(j).items # <<>>
    /\ \E c \in 1..Len(issued[j]) : ~InScoreMap(Parsed(j).items, issued[j][c].table_name)

\* C1: whenever retrieval and the metadata fetch succeeded, the request
\* returns normally and the returned list holds every candidate identifier
\* exactly once and nothing else, whatever the batches' LLM outcomes were.
C1_Complete ==
    (Done /\ failed_at = "none") =>
        /\ http = 200
        /\ Len(response) = NCand
        /\ {response[j].table_name : j \in 1..Len(response)} = Range(CandNames)
        /\ Cardinality({response[j].table_name : j \in 1..Len(response)})
             = Len(response)

\* C1 witness: a finished three-batch request with a failed call, a response
\* naming a foreign table and a partial response.
C1_Witness ==
    /\ Done
    /\ http = 200
    /\ ~fellback
    /\ Len(replies) = 3
    /\ replies[1].kind = "fail"
    /\ ReplyNamesForeign(2)
    /\ ReplyIsPartial(3)
    /\ Len(response) = NCand

\* C2: a failure confined to one batch is recovered inside that batch only:
\* the request returns normally, the failed batch's candidates get 0.0 and
\* the candidates of every other answered batch keep the scores their own
\* batch's response gave them.
C2_BatchLocalRecovery ==
    (Done /\ NCand > 0) =>
        /\ http = 200
        /\ \A j \in 1..Len(replies) :
             \A c \in 1..Len(issued[j]) :
                LET name == issued[j][c].table_name
                IN ResponseScore(name) =
                     IF ReplyIsFailure(j) THEN 0
                     ELSE LLMScore(Parsed(j).items, name)

\* C3: a candidate's score is a score its own batch's parsed response reports
\* for its identifier when the identifier is present there, and 0.0 when the
\* batch call failed, the response could not be parsed or the identifier is
\* absent from the parsed response; the candidate is never omitted.
C3_ScorePerCandidate ==
    (Done /\ NCand > 0) =>
        \A j \in 1..Len(replies) :
          \A c \in 1..Len(issued[j]) :
            LET name == issued[j][c].table_name
                items == Parsed(j).items
                reported == {items[k].score : k \in
                               {k \in 1..Len(items) :
                                  items[k].t = "obj" /\ items[k].name = name}}
            IN /\ \E r \in 1..Len(response) : response[r].table_name = name
               /\ reported # {} => ResponseScore(name) \in reported
               /\ (replies[j].kind = "fail" \/ ReplyUnparseable(j)
                     \/ ~InScoreMap(items, name)) => ResponseScore(name) = 0

\* C4: if every batch call fails, the request returns normally, every score
\* is 0.0 and the candidates are listed in their input order.
C4_AllCallsFail ==
    (Done /\ NCand > 0 /\ \A j \in 1..Len(replies) : replies[j].kind = "fail") =>
        /\ http = 200
        /\ Len(replies) = CeilDiv(NCand, BATCH_SIZE)
        /\ response = [j \in 1..NCand |->
                         [table_name |-> candidates[j].table_name, score |-> 0]]

\* C4 witness: three failed batch calls, and the request has returned.
C4_Witness ==
    /\ Done
    /\ Len(replies) = 3
    /\ \A j \in 1..3 : replies[j].kind = "fail"
    /\ Len(response) > 2 * BATCH_SIZE

\* C5: for n candidates exactly ceil(n/25) calls are issued, batch j holding
\* candidates 25*j .. min(25*j+24, n-1) (0-based) in input order.
C5_BatchCount ==
    (Done /\ NCand > 0) =>
        /\ Len(issued) = CeilDiv(NCand, BATCH_SIZE)
        /\ \A j \in 1..Len(issued) :
             /\ issued[j] = SubSeq(candidates, BATCH_SIZE * (j - 1) + 1,
                                   Min2(BATCH_SIZE * j, NCand))
             /\ Len(issued[j]) <= BATCH_SIZE
             /\ (j < Len(issued) => Len(issued[j]) = BATCH_SIZE)

\* C6: every returned score lies in [0, 1] (0..10 in tenths).
C6_ScoreInUnitInterval ==
    Done => \A j \in 1..Len(response) :
               response[j].score >= 0 /\ response[j].score <= 10

C8_RetrievalFailureIsFatal ==
    /\ failed_at \in {"embedding", "vector"} =>
          /\ Done
          /\ http = 500
          /\ response = <<>>
          /\ issued = <<>>
          /\ replies = <<>>
          /\ ~fellback
    /\ (Done /\ http = 200 /\ response # <<>>) =>
          /\ failed_at = "none"
          /\ initial_results # <<>>
    /\ (Done /\ \E j \in 1..Len(replies) : ReplyIsFailure(j)) =>
          /\ http = 200
          /\ Len(response) = NCand
          /\ NCand > 0

\* C8 witness: the vector retrieval raised and the request ended in an error.
C8_Witness ==
    /\ Done
    /\ failed_at = "vector"
    /\ http = 500

\* C9: an outstanding batch call is bounded by a timeout: whenever the
\* request waits for the scorer, it can go on without the scorer's answer
\* (abandon the call and treat the batch as failed).
C9_CallIsBounded ==
    pc = "llm_wait" => ENABLED ServiceStep

----------------------------------------------------------------------------
(* Reciprocal Rank Fusion: calculate_rrf of hybrid_search.py and of         *)
(* hybrid_search_bm25.py (the two differ in names only).  A fused score is  *)
(* an exact fraction num/den with den > 0; weights are in tenths.           *)

Frac(n, d) == [num |-> n, den |-> d]

FracAdd(a, b) == Frac(a.num * b.den + b.num * a.den, a.den * b.den)

FracGeq(a, b) == a.num * b.den >= b.num * a.den

FracEq(a, b) == a.num * b.den = b.num * a.den

\* hybrid_search.py:59-62  rows become dicts with a 1-indexed rank
WithRanks(rows) == [j \in 1..Len(rows) |-> [table_name |-> rows[j], rank |-> j]]

\* hybrid_search.py:122-123, 132-133  the rank maps and .get(); 0 stands for
\* None.  A later entry for the same name overwrites, as in a dict.
RankOf(results, name) ==
    IF \E j \in 1..Len(results) : results[j].table_name = name
    THEN results[CHOOSE j \in 1..Len(results) :
                   /\ results[j].table_name = name
                   /\ \A k \in (j + 1)..Len(results) : results[k].table_name # name].rank
    ELSE 0

\* Mutant of AllTables: the intersection of the two key sets instead of the union.
AllTablesIntersection(vres, tres) ==
    {vres[j].table_name : j \in 1..Len(vres)} \cap {tres[j].table_name : j \in 1..Len(tres)}

\* hybrid_search.py:126  all_tables
AllTables(vres, tres) ==
    {vres[j].table_name : j \in 1..Len(vres)} \cup {tres[j].table_name : j \in 1..Len(tres)}

\* Mutant of RrfScore: the tags term is added only when the vector rank is
\* missing (an elif in place of the second if).
RrfScoreElif(vrank, trank, k, wv, wt) ==
    IF vrank # 0 THEN Frac(wv, k + vrank)
    ELSE IF trank # 0 THEN Frac(wt, k + trank)
    ELSE Frac(0, 1)

\* Mutant of RrfScore: the constant k is left out of the denominators.
RrfScoreNoK(vrank, trank, k, wv, wt) ==
    LET s0 == Frac(0, 1)
        s1 == IF vrank # 0 THEN FracAdd(s0, Frac(wv, vrank)) ELSE s0
    IN IF trank # 0 THEN FracAdd(s1, Frac(wt, trank)) ELSE s1

\* Mutant of RrfScore: ranks are counted from 0 in the denominators.
RrfScoreZeroBased(vrank, trank, k, wv, wt) ==
    LET s0 == Frac(0, 1)
        s1 == IF vrank # 0 THEN FracAdd(s0, Frac(wv, k + vrank - 1)) ELSE s0
    IN IF trank # 0 THEN FracAdd(s1, Frac(wt, k + trank - 1)) ELSE s1

\* hybrid_search.py:131-141  the fused score of one table
RrfScore(vrank, trank, k, wv, wt) ==
    LET s0 == Frac(0, 1)
        s1 == IF vrank # 0 THEN FracAdd(s0, Frac(wv, k + vrank)) ELSE s0
    IN IF trank # 0 THEN FracAdd(s1, Frac(wt, k + trank)) ELSE s1

\* hybrid_search.py:143-150  HybridSearchResult
RrfResult(name, vres, tres, k, wv, wt) ==
    [table_name |-> name,
     rrf_score |-> RrfScore(RankOf(vres, name), RankOf(tres, name), k, wv, wt),
     vector_rank |-> RankOf(vres, name),
     tags_rank |-> RankOf(tres, name)]

\* hybrid_search.py:153  rrf_scores.sort(key=rrf_score, reverse=True): a
\* stable sort; an element goes after every element whose score is >= its own.
InsertByRrf(sorted, x) ==
    LET before == SelectSeq(sorted, LAMBDA r : FracGeq(r.rrf_score, x.rrf_score))
        after == SelectSeq(sorted, LAMBDA r : ~FracGeq(r.rrf_score, x.rrf_score))
    IN before \o <<x>> \o after

\* Mutant of SortByRrfDesc: the list is left in the iteration order of
\* all_tables.
SortByRrfOmitted(s) == s

RECURSIVE SortByRrfDesc(_)
SortByRrfDesc(s) ==
    IF Len(s) = 0 THEN <<>>
    ELSE InsertByRrf(SortByRrfDesc(SubSeq(s, 1, Len(s) - 1)), s[Len(s)])

\* The orders in which a set can be iterated (hybrid_search.py:130 iterates
\* a set of strings, whose order is not fixed).
SetOrders(S) == {o \in [1..Cardinality(S) -> S] : Range(o) = S}

\* hybrid_search.py:98-155  calculate_rrf, with the iteration order of
\* all_tables given.
CalculateRrf(vres, tres, k, wv, wt, order) ==
    SortByRrfDesc([j \in 1..Len(order) |-> RrfResult(order[j], vres, tres, k, wv, wt)])

----------------------------------------------------------------------------
(* POST /search_hybrid and /search_hybrid_bm25: main.py:109-170 around      *)
(* HybridSearchService.search and HybridSearchBM25Service.search.           *)

Tables == 1..MaxTables

\* The rows a retrieval source may return: distinct table names, best first.
SourceRows ==
    UNION {{r \in [1..n -> Tables] : \A a, b \in 1..n : a # b => r[a] # r[b]} :
             n \in 0..MaxRows}

\* The (vector_weight, tags_weight) pairs of the model, in tenths.
WeightPairs == {<<5, 5>>, <<7, 3>>, <<10, 0>>}

HybridRequests ==
    {[variant |-> v, query |-> "q", top_n |-> n, rrf_k |-> k,
      vector_weight |-> w[1], tags_weight |-> w[2]] :
        v \in {"tags", "bm25"}, n \in (1..MaxTopN) \cup {TOP_N_MAX}, k \in {1, RRF_K},
        w \in WeightPairs}

HybridInit ==
    /\ RerankIdle
    /\ FuseIdle
    /\ SearchIdle
    /\ h_pc = "start"
    /\ h_req \in HybridRequests
    /\ vs_state = "idle"
    /\ ts_state = "idle"
    /\ vs_limit = 0
    /\ ts_limit = 0
    /\ vs_query = ""
    /\ ts_query = ""
    /\ completed = <<>>
    /\ vector_results = <<>>
    /\ tags_results = <<>>
    /\ rrf_results = <<>>
    /\ h_http = 0
    /\ h_response = <<>>

\* Mutant of StartSearch: the vector source is awaited on its own first, and
\* the other source is not started with it.
StartSearchSequential ==
    /\ UNCHANGED <<rvars, fvars, svars>>
    /\ h_pc = "start"
    /\ h_pc' = "gather"
    /\ vs_limit' = Max2(MIN_CANDIDATES, h_req.top_n * 10)
    /\ vs_query' = h_req.query
    /\ vs_state' = "embed"
    /\ UNCHANGED <<h_req, ts_state, ts_limit, ts_query, completed, vector_results,
                   tags_results, rrf_results, h_http, h_response>>

\* hybrid_search.py:180-186  both coroutines are handed to asyncio.gather;
\* bm25_search (hybrid_search_bm25.py:64-104) has no embedding step.
StartSearch ==
    /\ UNCHANGED <<rvars, fvars, svars>>
    /\ h_pc = "start"
    /\ h_pc' = "gather"
    /\ vs_limit' = Max2(MIN_CANDIDATES, h_req.top_n * 10)
    /\ ts_limit' = Max2(MIN_CANDIDATES, h_req.top_n * 10)
    /\ vs_query' = h_req.query
    /\ ts_query' = h_req.query
    /\ vs_state' = "embed"
    /\ ts_state' = IF h_req.variant = "tags" THEN "embed" ELSE "fetch"
    /\ UNCHANGED <<h_req, completed, vector_results, tags_results, rrf_results,
                   h_http, h_response>>

\* Mutant of GatherRaises: the exception of a source is swallowed and the
\* request goes on.
GatherSwallows == UNCHANGED <<h_pc, h_http>>

\* main.py:137-138  the first exception out of gather becomes HTTP 500; a
\* later failure of the other coroutine is not seen by anyone.
GatherRaises ==
    IF h_pc = "gather"
    THEN h_pc' = "done" /\ h_http' = 500
    ELSE UNCHANGED <<h_pc, h_http>>

\* hybrid_search.py:39  the vector source's embedding call answers
VSEmbedded ==
    /\ UNCHANGED <<rvars, fvars, svars>>
    /\ vs_state = "embed"
    /\ vs_state' = "fetch"
    /\ UNCHANGED <<h_pc, h_req, ts_state, vs_limit, ts_limit, vs_query, ts_query,
                   completed, vector_results, tags_results, rrf_results, h_http, h_response>>

\* embedding.py:31-32  the vector source's embedding call raises
VSEmbedFails ==
    /\ UNCHANGED <<rvars, fvars, svars>>
    /\ vs_state = "embed"
    /\ vs_state' = "failed"
    /\ GatherRaises
    /\ UNCHANGED <<h_req, ts_state, vs_limit, ts_limit, vs_query, ts_query,
                   completed, vector_results, tags_results, rrf_results, h_response>>

\* hybrid_search.py:55-62  the vector index query answers
VSFetched ==
    /\ UNCHANGED <<rvars, fvars, svars>>
    /\ vs_state = "fetch"
    /\ \E rows \in SourceRows :
         /\ Len(rows) <= vs_limit
         /\ vector_results' = WithRanks(rows)
    /\ vs_state' = "done"
    /\ completed' = Append(completed, "vs")
    /\ UNCHANGED <<h_pc, h_req, ts_state, vs_limit, ts_limit, vs_query, ts_query,
                   tags_results, rrf_results, h_http, h_response>>

\* hybrid_search.py:55-56  the vector index query raises
VSFetchFails ==
    /\ UNCHANGED <<rvars, fvars, svars>>
    /\ vs_state = "fetch"
    /\ vs_state' = "failed"
    /\ GatherRaises
    /\ UNCHANGED <<h_req, ts_state, vs_limit, ts_limit, vs_query, ts_query,
                   completed, vector_results, tags_results, rrf_results, h_response>>

\* hybrid_search.py:76  the tags source's embedding call answers
TSEmbedded ==
    /\ UNCHANGED <<rvars, fvars, svars>>
    /\ ts_state = "embed"
    /\ ts_state' = "fetch"
    /\ UNCHANGED <<h_pc, h_req, vs_state, vs_limit, ts_limit, vs_query, ts_query,
                   completed, vector_results, tags_results, rrf_results, h_http, h_response>>

\* embedding.py:31-32  the tags source's embedding call raises
TSEmbedFails ==
    /\ UNCHANGED <<rvars, fvars, svars>>
    /\ ts_state = "embed"
    /\ ts_state' = "failed"
    /\ GatherRaises
    /\ UNCHANGED <<h_req, vs_state, vs_limit, ts_limit, vs_query, ts_query,
                   completed, vector_results, tags_results, rrf_results, h_response>>

\* hybrid_search.py:89-96, hybrid_search_bm25.py:97-104  the tags / BM25
\* query answers
TSFetched ==
    /\ UNCHANGED <<rvars, fvars, svars>>
    /\ ts_state = "fetch"
    /\ \E rows \in SourceRows :
         /\ Len(rows) <= ts_limit
         /\ tags_results' = WithRanks(rows)
    /\ ts_state' = "done"
    /\ completed' = Append(completed, "ts")
    /\ UNCHANGED <<h_pc, h_req, vs_state, vs_limit, ts_limit, vs_query, ts_query,
                   vector_results, rrf_results, h_http, h_response>>

\* hybrid_search.py:89-90, hybrid_search_bm25.py:97-98  the query raises
TSFetchFails ==
    /\ UNCHANGED <<rvars, fvars, svars>>
    /\ ts_state = "fetch"
    /\ ts_state' = "failed"
    /\ GatherRaises
    /\ UNCHANGED <<h_req, vs_state, vs_limit, ts_limit, vs_query, ts_query,
                   completed, vector_results, tags_results, rrf_results, h_response>>

\* Mutant of GatherResults: the two lists in the order the sources returned.
GatherResultsAsCompleted(vres, tres, order) ==
    IF order[1] = "ts" THEN <<tres, vres>> ELSE <<vres, tres>>

\* hybrid_search.py:183-186  the value of asyncio.gather: the results of its
\* arguments in argument order, whichever returned first.
GatherResults(vres, tres, order) == <<vres, tres>>

\* Mutant of TopN: the whole fused ranking is returned.
TopNUntruncated(results, n) == results

\* hybrid_search.py:194  rrf_results[:top_n]
TopN(results, n) == SubSeq(results, 1, Min2(n, Len(results)))

\* hybrid_search.py:188-194, main.py:135  both sources have returned:
\* calculate_rrf, then the first top_n results
Fuse ==
    /\ UNCHANGED <<rvars, fvars, svars>>
    /\ h_pc = "gather"
    /\ vs_state = "done"
    /\ ts_state = "done"
    /\ \E order \in SetOrders(AllTables(vector_results, tags_results)) :
         LET got == GatherResults(vector_results, tags_results, completed)
             fused == CalculateRrf(got[1], got[2], h_req.rrf_k,
                                   h_req.vector_weight, h_req.tags_weight, order)
         IN /\ rrf_results' = fused
            /\ h_response' = TopN(fused, h_req.top_n)
    /\ h_http' = 200
    /\ h_pc' = "done"
    /\ UNCHANGED <<h_req, vs_state, ts_state, vs_limit, ts_limit, vs_query, ts_query,
                   completed, vector_results, tags_results>>

HybridNext ==
    \/ StartSearch
    \/ VSEmbedded
    \/ VSEmbedFails
    \/ VSFetched
    \/ VSFetchFails
    \/ TSEmbedded
    \/ TSEmbedFails
    \/ TSFetched
    \/ TSFetchFails
    \/ Fuse

HybridSpec == HybridInit /\ [][HybridNext]_vars

----------------------------------------------------------------------------
(* calculate_rrf called directly, once as (a, b, k, w1, w2) and once with   *)
(* the sources exchanged, (b, a, k, w2, w1): hybrid_search.py:98-155.       *)

FuseKs == {0, 1, RRF_K}

FuseWeights == WeightPairs \cup {<<0, 0>>}

FuseInputs ==
    {[a |-> WithRanks(ra), b |-> WithRanks(rb), k |-> k, w1 |-> w[1], w2 |-> w[2]] :
        ra \in SourceRows, rb \in SourceRows, k \in FuseKs, w \in FuseWeights}

FuseInit ==
    /\ RerankIdle
    /\ HybridIdle
    /\ SearchIdle
    /\ f_pc = "ab"
    /\ f_in \in FuseInputs
    /\ f_ab = <<>>
    /\ f_ba = <<>>

\* calculate_rrf(a, b, k, w1, w2)
CallAB ==
    /\ UNCHANGED <<rvars, hvars, svars>>
    /\ f_pc = "ab"
    /\ \E order \in SetOrders(AllTables(f_in.a, f_in.b)) :
         f_ab' = CalculateRrf(f_in.a, f_in.b, f_in.k, f_in.w1, f_in.w2, order)
    /\ f_pc' = "ba"
    /\ UNCHANGED <<f_in, f_ba>>

\* calculate_rrf(b, a, k, w2, w1)
CallBA ==
    /\ UNCHANGED <<rvars, hvars, svars>>
    /\ f_pc = "ba"
    /\ \E order \in SetOrders(AllTables(f_in.b, f_in.a)) :
         f_ba' = CalculateRrf(f_in.b, f_in.a, f_in.k, f_in.w2, f_in.w1, order)
    /\ f_pc' = "done"
    /\ UNCHANGED <<f_in, f_ab>>

FuseNext ==
    \/ CallAB
    \/ CallBA

FuseSpec == FuseInit /\ [][FuseNext]_vars

----------------------------------------------------------------------------
(* VectorSearchService.search (search.py:16-73).  A distance d stands for   *)
(* d / DistScale, a score s for s / ScoreScale.                             *)

\* The method values of the model; "euclidean" is not a key of OPERATORS.
Methods == {"cosine", "L2", "dot_product", "euclidean"}

\* search.py:10-14, 37  OPERATORS.get(method, "<=>")
OperatorOf(method) ==
    CASE method = "cosine" -> "<=>"
      [] method = "L2" -> "<->"
      [] method = "dot_product" -> "<#>"
      [] OTHER -> "<=>"

Distances ==
    {DistStep * j : j \in (0 - MaxDistSteps)..MaxDistSteps}
      \cup {DistScale \div 5, DistScale, 0 - (9 * DistScale) \div 10}

\* The distances an operator can produce: a cosine distance lies in [0, 2],
\* an L2 distance is not negative, <#> is the negated inner product.
DistancesOf(operator) ==
    CASE operator = "<=>" -> {d \in Distances : d >= 0 /\ d <= 2 * DistScale}
      [] operator = "<->" -> {d \in Distances : d >= 0}
      [] OTHER -> Distances

\* search.py:40-51  the rows of the query: at most LIMIT of them, ordered by
\* the operator's distance; row j is table j.
SearchRows(operator, limit) ==
    UNION {{[j \in 1..n |-> [table_name |-> j, distance |-> ds[j]]] :
              ds \in {x \in [1..n -> DistancesOf(operator)] :
                        \A j \in 1..(n - 1) : x[j] <= x[j + 1]}} :
             n \in 0..Min2(limit, MaxSRows)}

\* Mutant of ScoreRule: every method takes the dot-product branch.
ScoreRuleNegated(method, d) == <<0 - d, DistScale \div ScoreScale>>

\* search.py:62-67  the score before rounding, in units of 1/ScoreScale, as
\* the exact quotient <<p, q>> with q > 0.
ScoreRule(method, d) ==
    IF method = "cosine" THEN <<DistScale - d, DistScale \div ScoreScale>>
    ELSE IF method = "L2" THEN <<ScoreScale * DistScale, DistScale + d>>
    ELSE <<0 - d, DistScale \div ScoreScale>>

\* search.py:70  round(score, 4): the nearest multiple of 1/ScoreScale; when
\* the exact value is halfway between two, the binary float decides and
\* either neighbour can come out.
Round4(pq) ==
    LET f == pq[1] \div pq[2]
        r == pq[1] % pq[2]
    IN IF 2 * r < pq[2] THEN {f}
       ELSE IF 2 * r > pq[2] THEN {f + 1}
       ELSE {f, f + 1}

\* The larger or the smaller of the possible roundings.
Pick(outcomes, up) ==
    IF up THEN CHOOSE x \in outcomes : \A y \in outcomes : x >= y
    ELSE CHOOSE x \in outcomes : \A y \in outcomes : x <= y

SearchInit ==
    /\ RerankIdle
    /\ HybridIdle
    /\ FuseIdle
    /\ s_pc = "embed"
    /\ s_method \in Methods
    /\ s_operator = ""
    /\ s_top_n \in 1..MaxSRows
    /\ s_rows = <<>>
    /\ s_results = <<>>

\* search.py:31-37  the embedding call answers; the operator is chosen
SEmbedded ==
    /\ UNCHANGED <<rvars, hvars, fvars>>
    /\ s_pc = "embed"
    /\ s_operator' = OperatorOf(s_method)
    /\ s_pc' = "fetch"
    /\ UNCHANGED <<s_method, s_top_n, s_rows, s_results>>

\* embedding.py:31-32  the embedding call raises
SEmbedFails ==
    /\ UNCHANGED <<rvars, hvars, fvars>>
    /\ s_pc = "embed"
    /\ s_pc' = "raised"
    /\ UNCHANGED <<s_method, s_operator, s_top_n, s_rows, s_results>>

\* search.py:50-73  the query answers; every row becomes a SearchResult
SFetched ==
    /\ UNCHANGED <<rvars, hvars, fvars>>
    /\ s_pc = "fetch"
    /\ \E rows \in SearchRows(s_operator, s_top_n) :
         /\ s_rows' = rows
         /\ \E up \in [1..Len(rows) -> BOOLEAN] :
              s_results' = [j \in 1..Len(rows) |->
                              [table_name |-> rows[j].table_name,
                               score |-> Pick(Round4(ScoreRule(s_method, rows[j].distance)),
                                              up[j])]]
    /\ s_pc' = "done"
    /\ UNCHANGED <<s_method, s_operator, s_top_n>>

\* search.py:50-51  the query raises
SFetchFails ==
    /\ UNCHANGED <<rvars, hvars, fvars>>
    /\ s_pc = "fetch"
    /\ s_pc' = "raised"
    /\ UNCHANGED <<s_method, s_operator, s_top_n, s_rows, s_results>>

SearchNext ==
    \/ SEmbedded
    \/ SEmbedFails
    \/ SFetched
    \/ SFetchFails

SearchSpec == SearchInit /\ [][SearchNext]_vars

----------------------------------------------------------------------------
(* Properties of the hybrid search.                                         *)

Fused == h_pc = "done" /\ h_http = 200

ResultNames(res) == {res[j].table_name : j \in 1..Len(res)}

\* C10: calculate_rrf returns exactly one result per identifier of the union
\* of the two sources: none dropped, none twice, none from outside, and with
\* one side empty the identifiers are exactly the other side's.
C10_FusionComplete ==
    Fused =>
        /\ ResultNames(rrf_results)
             = ResultNames(vector_results) \cup ResultNames(tags_results)
        /\ Cardinality(ResultNames(rrf_results)) = Len(rrf_results)
        /\ Len(rrf_results)
             = Cardinality(ResultNames(vector_results) \cup ResultNames(tags_results))
        /\ (tags_results = <<>> =>
              ResultNames(rrf_results) = ResultNames(vector_results))
        /\ (vector_results = <<>> =>
              ResultNames(rrf_results) = ResultNames(tags_results))

\* C10 witness: two sources that overlap in part have been fused.
C10_Witness ==
    /\ Fused
    /\ Len(vector_results) = 2
    /\ Len(tags_results) = 2
    /\ Cardinality(ResultNames(vector_results) \cap ResultNames(tags_results)) = 1
    /\ Len(rrf_results) = 3

\* The rank a source gave to a name, read off the source's own result list.
SourceRank(res, name) ==
    (CHOOSE e \in Range(res) : e.table_name = name).rank

\* The contribution weight / (k + rank) of one source to one name, as a pair
\* <<numerator, denominator>>; <<0, 1>> when the source did not return the name.
Contribution(res, name, k, w) ==
    IF name \in ResultNames(res) THEN <<w, k + SourceRank(res, name)>> ELSE <<0, 1>>

\* C11: the fused score of every returned identifier is
\* vector_weight / (k + vector rank), counted only if the vector source
\* returned it, plus tags_weight / (k + tags rank), counted only if the
\* tags / BM25 source returned it; in both hybrid variants.
C11_FusedScoreFormula ==
    Fused =>
        \A j \in 1..Len(rrf_results) :
            LET r == rrf_results[j]
                a == Contribution(vector_results, r.table_name, h_req.rrf_k,
                                  h_req.vector_weight)
                b == Contribution(tags_results, r.table_name, h_req.rrf_k,
                                  h_req.tags_weight)
            IN r.rrf_score.num * (a[2] * b[2])
                 = r.rrf_score.den * (a[1] * b[2] + b[1] * a[2])

\* C11 witness: the BM25 variant has fused a name found by both sources with
\* names found by one source only, under unequal weights.
C11_Witness ==
    /\ Fused
    /\ h_req.variant = "bm25"
    /\ h_req.vector_weight = 7
    /\ \E n \in ResultNames(rrf_results) :
         n \in ResultNames(vector_results) \cap ResultNames(tags_results)
    /\ \E n \in ResultNames(rrf_results) :
         n \in ResultNames(vector_results) \ ResultNames(tags_results)
    /\ \E n \in ResultNames(rrf_results) :
         n \in ResultNames(tags_results) \ ResultNames(vector_results)

\* The worked scenario: the vector source ranked t1 first and t2 second, the
\* keyword source ranked t2 first and t3 second, k = 60 and both weights are
\* 0.5 (tables 1, 2, 3 stand for t1, t2, t3).
C12_Scenario ==
    /\ Fused
    /\ vector_results = <<[table_name |-> 1, rank |-> 1], [table_name |-> 2, rank |-> 2]>>
    /\ tags_results = <<[table_name |-> 2, rank |-> 1], [table_name |-> 3, rank |-> 2]>>
    /\ h_req.rrf_k = RRF_K
    /\ h_req.vector_weight = 5
    /\ h_req.tags_weight = 5

\* The fused score calculate_rrf gave to a name.
ScoreOf(res, name) ==
    (CHOOSE e \in Range(res) : e.table_name = name).rrf_score

\* C12: in the worked scenario the output is ordered t2, t1, t3, with t1 at
\* 0.5/61 and t3 at 0.5/62, and t2 at 0.5/62 + 0.5/61: t2 is second in the
\* vector source and first in the keyword source.
C12_WorkedExample ==
    C12_Scenario =>
        /\ [j \in 1..Len(rrf_results) |-> rrf_results[j].table_name] = <<2, 1, 3>>
        /\ FracEq(ScoreOf(rrf_results, 1), Frac(5, RRF_K + 1))
        /\ FracEq(ScoreOf(rrf_results, 3), Frac(5, RRF_K + 2))
        /\ FracEq(ScoreOf(rrf_results, 2),
                  Frac(5 * (RRF_K + 1) + 5 * (RRF_K + 2), (RRF_K + 2) * (RRF_K + 1)))

\* C12 as stated: the same scenario, with t2 at 0.5/61 + 0.5/61.
C12_AsStated ==
    C12_Scenario =>
        /\ [j \in 1..Len(rrf_results) |-> rrf_results[j].table_name] = <<2, 1, 3>>
        /\ FracEq(ScoreOf(rrf_results, 1), Frac(5, RRF_K + 1))
        /\ FracEq(ScoreOf(rrf_results, 3), Frac(5, RRF_K + 2))
        /\ FracEq(ScoreOf(rrf_results, 2), Frac(5 + 5, RRF_K + 1))

\* C12 witness: the worked scenario has been fused into three results.
C12_Witness ==
    /\ C12_Scenario
    /\ Len(rrf_results) = 3
    /\ h_http = 200

\* C13: the list calculate_rrf returns is in non-increasing order of fused
\* score: each result's score is at least the score of the result after it.
C13_SortedByFusedScore ==
    Fused =>
        \A j \in 1..(Len(rrf_results) - 1) :
            rrf_results[j].rrf_score.num * rrf_results[j + 1].rrf_score.den
              >= rrf_results[j + 1].rrf_score.num * rrf_results[j].rrf_score.den

\* C13 witness: three results with three different fused scores, the best of
\* them a name the vector source ranked second.
C13_Witness ==
    /\ Fused
    /\ Len(rrf_results) = 3
    /\ \A j \in 1..2 : ~FracEq(rrf_results[j].rrf_score, rrf_results[j + 1].rrf_score)
    /\ rrf_results[1].vector_rank = 2

----------------------------------------------------------------------------
(* Properties of calculate_rrf called directly.                             *)

\* Two results are the same once the second has its two per-source rank
\* fields exchanged.
SameAfterSwap(x, y) ==
    /\ x.table_name = y.table_name
    /\ FracEq(x.rrf_score, y.rrf_score)
    /\ x.vector_rank = y.tags_rank
    /\ x.tags_rank = y.vector_rank

\* C14: calculate_rrf(a, b, k, w1, w2) and calculate_rrf(b, a, k, w2, w1)
\* return the same list, position by position (so also with the same order
\* among results of equal fused score), once the rank fields are exchanged.
C14_Symmetric ==
    f_pc = "done" =>
        /\ Len(f_ab) = Len(f_ba)
        /\ \A j \in 1..Len(f_ab) : SameAfterSwap(f_ab[j], f_ba[j])

\* The bound w1 / (k + 1) + w2 / (k + 1) of the call's arguments.
ScoreBound == Frac(f_in.w1 + f_in.w2, f_in.k + 1)

\* C15: with weights >= 0, k >= 0 and ranks >= 1, no fused score exceeds
\* w1 / (k + 1) + w2 / (k + 1), and a result whose score equals the bound has
\* rank 1 in every source whose weight is not zero.
C15_ScoreBound ==
    f_pc \in {"ba", "done"} =>
        \A j \in 1..Len(f_ab) :
            /\ FracGeq(ScoreBound, f_ab[j].rrf_score)
            /\ FracEq(f_ab[j].rrf_score, ScoreBound) =>
                 /\ (f_in.w1 > 0 => f_ab[j].vector_rank = 1)
                 /\ (f_in.w2 > 0 => f_ab[j].tags_rank = 1)

\* C15 as stated: a result whose score equals the bound has rank 1 in both
\* sources.
C15_AsStated ==
    f_pc \in {"ba", "done"} =>
        \A j \in 1..Len(f_ab) :
            /\ FracGeq(ScoreBound, f_ab[j].rrf_score)
            /\ FracEq(f_ab[j].rrf_score, ScoreBound) =>
                 /\ f_ab[j].vector_rank = 1
                 /\ f_ab[j].tags_rank = 1

\* C15 witness: with k = 0 and two positive weights, the first result is
\* first in both sources and sits on the bound, the second lies below it.
C15_Witness ==
    /\ f_pc = "done"
    /\ f_in.k = 0
    /\ f_in.w1 = 7
    /\ f_in.w2 = 3
    /\ Len(f_ab) = 2
    /\ f_ab[1].vector_rank = 1
    /\ f_ab[1].tags_rank = 1
    /\ FracEq(f_ab[1].rrf_score, ScoreBound)
    /\ ~FracGeq(f_ab[2].rrf_score, ScoreBound)

----------------------------------------------------------------------------
(* Properties of the hybrid search request.                                 *)

\* The candidate limit of the request: the larger of 100 and ten times top_n.
CandidateLimit ==
    IF h_req.top_n * 10 > 100 THEN h_req.top_n * 10 ELSE 100

\* C16: once either retrieval source has been started, both have been, each
\* with the request's query and the limit max(100, top_n * 10), so neither
\* runs to completion before the other starts; and calculate_rrf has run
\* only if both sources returned their result lists.
C16_ConcurrentThenJoin ==
    /\ (vs_state # "idle" \/ ts_state # "idle") =>
          /\ vs_state # "idle"
          /\ ts_state # "idle"
          /\ vs_query = h_req.query
          /\ ts_query = h_req.query
          /\ vs_limit = CandidateLimit
          /\ ts_limit = CandidateLimit
    /\ (h_http = 200 \/ rrf_results # <<>>) =>
          /\ vs_state = "done"
          /\ ts_state = "done"

\* C16 witness: a request for 100 results, so with limit 1000 at both
\* sources, whose fusion ran over the two returned lists.
C16_Witness ==
    /\ Fused
    /\ h_req.top_n = TOP_N_MAX
    /\ vs_limit = 10 * TOP_N_MAX
    /\ ts_limit = 10 * TOP_N_MAX
    /\ Len(vector_results) = 2
    /\ Len(tags_results) = 1
    /\ Len(rrf_results) = 3

\* C17: when a retrieval source has failed, in its embedding call or in its
\* index query, the request has ended with an error and nothing was fused
\* or returned: the other source's list is not fused with an empty one.
\* The same for the vector source and the tags / BM25 source.
C17_SourceFailureIsFatal ==
    (vs_state = "failed" \/ ts_state = "failed") =>
        /\ h_pc = "done"
        /\ h_http = 500
        /\ rrf_results = <<>>
        /\ h_response = <<>>

\* C17 witness: in the BM25 variant the keyword query raised after the
\* vector source had returned two rows; the request ended with HTTP 500.
C17_Witness ==
    /\ h_req.variant = "bm25"
    /\ ts_state = "failed"
    /\ vs_state = "done"
    /\ Len(vector_results) = 2
    /\ h_http = 500

----------------------------------------------------------------------------
(* Properties of the vector search.                                         *)

Abs(x) == IF x < 0 THEN 0 - x ELSE x

\* The number of distance units in one score unit.
UnitsPerScore == DistScale \div ScoreScale

\* A score s is the multiple of 1/ScoreScale nearest to the quotient p / q.
NearestTo(s, p, q) == 2 * Abs(s * q - p) <= q

\* C18: for the three metrics, every returned score is the metric's rule
\* applied to the row's distance and rounded to four decimal places: cosine
\* 1 - d, L2 1 / (1 + d), dot_product -d; so cosine 0.2 gives 0.8, L2 1.0
\* gives 0.5 and dot_product -0.9 gives 0.9.
C18_ScoreRule ==
    (s_pc = "done" /\ s_method \in {"cosine", "L2", "dot_product"}) =>
        /\ Len(s_results) = Len(s_rows)
        /\ \A j \in 1..Len(s_rows) :
             LET d == s_rows[j].distance
                 sc == s_results[j].score
             IN /\ s_results[j].table_name = s_rows[j].table_name
                /\ s_method = "cosine" => NearestTo(sc, DistScale - d, UnitsPerScore)
                /\ s_method = "L2" => NearestTo(sc, ScoreScale * DistScale, DistScale + d)
                /\ s_method = "dot_product" => NearestTo(sc, 0 - d, UnitsPerScore)
                /\ (s_method = "cosine" /\ 5 * d = DistScale) => 5 * sc = 4 * ScoreScale
                /\ (s_method = "L2" /\ d = DistScale) => 2 * sc = ScoreScale
                /\ (s_method = "dot_product" /\ 10 * d = 0 - 9 * DistScale) =>
                     10 * sc = 9 * ScoreScale

\* C18 as stated: the returned score is exactly the rule's value.
C18_AsStated ==
    (s_pc = "done" /\ s_method \in {"cosine", "L2", "dot_product"}) =>
        /\ Len(s_results) = Len(s_rows)
        /\ \A j \in 1..Len(s_rows) :
             LET d == s_rows[j].distance
                 sc == s_results[j].score
             IN /\ s_results[j].table_name = s_rows[j].table_name
                /\ s_method = "cosine" => sc * UnitsPerScore = DistScale - d
                /\ s_method = "L2" => sc * (DistScale + d) = ScoreScale * DistScale
                /\ s_method = "dot_product" => sc * UnitsPerScore = 0 - d

\* C18 witness: an L2 search returned a row at distance 1.0 with score 0.5.
C18_Witness ==
    /\ s_pc = "done"
    /\ s_method = "L2"
    /\ Len(s_results) = 1
    /\ s_rows[1].distance = DistScale
    /\ 2 * s_results[1].score = ScoreScale

----------------------------------------------------------------------------
(* Properties of the response parser and of the candidate list.             *)

\* The places <<a, b>> of a response text where a well-formed array of
\* {table_name, score} objects with at least one entry stands: a "[", then
\* objects only, then a "]".
ValidArrays(text) ==
    {ab \in (1..Len(text)) \X (1..Len(text)) :
        /\ ab[1] + 1 < ab[2]
        /\ text[ab[1]].t = "lb"
        /\ text[ab[2]].t = "rb"
        /\ \A m \in (ab[1] + 1)..(ab[2] - 1) : text[m].t = "obj"}

\* C19: whenever a response text contains a well-formed array of scored
\* objects, whatever surrounds it, the parser returns the entries of such an
\* array (and so returns the empty list only if the text holds none).
C19_FindsEmbeddedArray ==
    \A j \in 1..Len(replies) :
        (replies[j].kind = "text" /\ ValidArrays(replies[j].text) # {}) =>
            \E ab \in ValidArrays(replies[j].text) :
                /\ Parsed(j).kind = "list"
                /\ Parsed(j).items = SubSeq(replies[j].text, ab[1] + 1, ab[2] - 1)

\* A candidate carries descriptive text that the metadata store supplied.
HasSuppliedText(c) == c.description \notin {"", "No description available"}

\* C20: every candidate handed to batching was returned by the vector
\* retrieval and carries descriptive text supplied by the metadata store;
\* no prompt holds a candidate with empty or placeholder text, and every
\* identifier of the output is such a candidate.
C20_OnlyDescribedCandidates ==
    /\ \A c \in 1..Len(candidates) :
         /\ candidates[c].table_name \in Range(initial_results)
         /\ HasSuppliedText(candidates[c])
    /\ \A j \in 1..Len(issued) : \A c \in 1..Len(issued[j]) :
         HasSuppliedText(issued[j][c])
    /\ \A r \in 1..Len(response) :
         \E c \in 1..Len(candidates) :
            /\ candidates[c].table_name = response[r].table_name
            /\ HasSuppliedText(candidates[c])

----------------------------------------------------------------------------
(* Properties of the join of the two sources and of the returned page.      *)

\* The rank a source's list gives to a name, 0 when the list lacks the name.
RankIn(res, name) ==
    IF name \in ResultNames(res) THEN SourceRank(res, name) ELSE 0

\* C21: in whichever order the two sources returned, the fused list is the
\* fusion with the vector source's list as the first source and the tags /
\* BM25 source's list as the second: every result carries the vector
\* source's rank as vector_rank and the other source's rank as tags_rank,
\* and its score weighs them with vector_weight and tags_weight.
C21_SourcesKeepTheirRoles ==
    (Fused /\ completed \in {<<"vs", "ts">>, <<"ts", "vs">>}) =>
        /\ ResultNames(rrf_results)
             = ResultNames(vector_results) \cup ResultNames(tags_results)
        /\ \A j \in 1..Len(rrf_results) :
             LET r == rrf_results[j]
                 a == Contribution(vector_results, r.table_name, h_req.rrf_k,
                                   h_req.vector_weight)
                 b == Contribution(tags_results, r.table_name, h_req.rrf_k,
                                   h_req.tags_weight)
             IN /\ r.vector_rank = RankIn(vector_results, r.table_name)
                /\ r.tags_rank = RankIn(tags_results, r.table_name)
                /\ FracEq(r.rrf_score, Frac(a[1] * b[2] + b[1] * a[2], a[2] * b[2]))

\* C21 witness: the keyword source returned before the vector source, the
\* two lists differ and the weights are unequal; the result names a table
\* that only the vector source found.
C21_Witness ==
    /\ Fused
    /\ completed = <<"ts", "vs">>
    /\ h_req.vector_weight = 7
    /\ Len(vector_results) = 2
    /\ Len(tags_results) = 1
    /\ \E j \in 1..Len(rrf_results) :
         rrf_results[j].vector_rank = 2 /\ rrf_results[j].tags_rank = 0

\* C22: the response of a hybrid search is the fused ranking cut after its
\* first min(top_n, number of names in the union of the two lists) entries:
\* never more than top_n results, and entry j of the response is entry j of
\* the fused ranking, so nothing is returned ahead of a better-ranked
\* candidate that is left out.
C22_FirstTopN ==
    Fused =>
        LET union == ResultNames(vector_results) \cup ResultNames(tags_results)
            size == IF h_req.top_n < Cardinality(union)
                    THEN h_req.top_n ELSE Cardinality(union)
        IN /\ Len(h_response) = size
           /\ Len(h_response) <= h_req.top_n
           /\ \A j \in 1..Len(h_response) : h_response[j] = rrf_results[j]

\* C22 witness: three names were fused and a request for two got the first
\* two of them.
C22_Witness ==
    /\ Fused
    /\ h_req.top_n = 2
    /\ Len(rrf_results) = 3
    /\ Len(h_response) = 2
    /\ h_response[2] = rrf_results[2]

----------------------------------------------------------------------------
(* The operator of the query against the rule of the score.                 *)

\* C23: whatever the method argument, every returned score is the rule of
\* the operator that ordered the rows, applied to the row's distance (and
\* rounded to four decimal places): 1 - d under the cosine operator <=>,
\* 1 / (1 + d) under the L2 operator <->, -d under the operator <#>.
C23_OperatorMatchesRule ==
    s_pc = "done" =>
        \A j \in 1..Len(s_rows) :
            LET d == s_rows[j].distance
                sc == s_results[j].score
            IN /\ s_operator \in {"<=>", "<->", "<#>"}
               /\ s_operator = "<=>" => NearestTo(sc, DistScale - d, UnitsPerScore)
               /\ s_operator = "<->" => NearestTo(sc, ScoreScale * DistScale, DistScale + d)
               /\ s_operator = "<#>" => NearestTo(sc, 0 - d, UnitsPerScore)

====
